---------------------------- MODULE Spec2Model ----------------------------
(***************************************************************************)
(* The GUI control panel of the network epidemic simulation                *)
(* (src/visuals.py): the session globals t, running, models, model, pos,   *)
(* the input variables, the Tk timer queue and the handlers bound to the   *)
(* buttons.  A handler that calls create_models is suspended at            *)
(* window.update() (line 479), where Tk dispatches whatever events are     *)
(* pending: the handlers in progress form a stack.                         *)
(*                                                                         *)
(* network_model.NetworkModel is imported (line 1) but is not part of the  *)
(* sources; it is modelled from the specification (sections 3, 4.3, 4.4,   *)
(* 6, 7) at the level of the weekly state counts.                          *)
(*                                                                         *)
(* Float inputs are held in hundredths: 0.11 is 11, 0.1 is 10.             *)
(***************************************************************************)
EXTENDS Integers, Sequences, FiniteSets, TLC

(***************************************************************************)
(* Bounds of the model.  The week and run counts of the program (520       *)
(* weeks, 10 weeks per update, 3 and 50 runs, 10 PrEP levels) are scaled   *)
(* down.                                                                   *)
(***************************************************************************)
\* default of "Max timesteps:" (520 at line 793), scaled
DefaultMaxT == 2
\* default of "Iterations (runs):" (3 at line 798), scaled
DefaultIterations == 2
\* default of "Steps per update:" (10 at line 803), scaled
DefaultSpu == 1
\* max_t of batch_export (520 at line 523), scaled
BatchMaxT == 2
\* iterations of batch_export (50 at line 524), scaled
BatchIterations == 2
\* number of entries of prep_values (10 at line 501), scaled
NumPrepValues == 2
\* handlers in progress at once (nesting through window.update())
MaxDepth == 1
\* snapshots a run may hold: stepping stops there
MaxSnapshots == 5
\* tick callbacks scheduled at once
MaxPending == 2
\* outcomes of one week's random draws
Draws == 2
\* nodes of a run held node by node
SweepNodes == 3

(***************************************************************************)
(* Program constants.                                                      *)
(***************************************************************************)
DefaultNumNodes == 1000
DefaultDelay == 50
DefaultIopPct == 11
DefaultSeed == 42
DefaultNetworkSeed == 67
DefaultPrepPct == 10
BatchNumNodes == 1000
BatchNetworkSeed == 67

VARIABLES
    t,          \* global t: the GUI's week counter
    running,    \* global running
    models,     \* global models: the active ensemble
    model,      \* global model: the run drawn in the network view
    pos,        \* global pos: the layout
    inp,        \* the IntVar/DoubleVar inputs made by add_variable_block
    use_seed,   \* use_seed_var
    mode_var,   \* mode_var
    pending,    \* number of tick callbacks scheduled with window.after
    title,      \* window title (its kind)
    stack,      \* handlers suspended at window.update() in create_models
    exported,   \* the file last written by export_csv_raw_runs
    last,       \* history: what the last step of the program was
    paused      \* history: Pause was the last control event dispatched

vars == <<t, running, models, model, pos, inp, use_seed, mode_var, pending,
          title, stack, exported, last, paused>>

Min(a, b) == IF a < b THEN a ELSE b
Max(a, b) == IF a > b THEN a ELSE b

(***************************************************************************)
(* Inputs.                                                                 *)
(***************************************************************************)
\* the (text, value, default) entries collected by add_variable_block
settings ==
    [num_nodes    |-> DefaultNumNodes,
     delay        |-> DefaultDelay,
     iop          |-> DefaultIopPct,
     seed         |-> DefaultSeed,
     network_seed |-> DefaultNetworkSeed,
     max_t        |-> DefaultMaxT,
     iterations   |-> DefaultIterations,
     spu          |-> DefaultSpu,
     prep         |-> DefaultPrepPct]

\* values of the mode dropdown the model uses (two of the thirteen)
Modes == {"standard", "random"}

\* prep_values of batch_export, in hundredths
prep_values == [j \in 1..NumPrepValues |-> 10 * j]

\* modes of batch_export
modes == <<"standard">>

(***************************************************************************)
(* NetworkModel, from the specification.                                   *)
(***************************************************************************)
None == [some |-> FALSE, val |-> 0]
Some(v) == [some |-> TRUE, val |-> v]

\* seeds an unseeded generator can take from the operating system
Entropy == 0 .. (Draws - 1)

KEYS == <<"susceptible", "acute", "chronic", "aids", "dead">>

\* week 0: the initial outbreak proportion of the nodes is Acute
Week0(num_nodes, iop) ==
    LET a == (num_nodes * iop + 50) \div 100
    IN  [susceptible |-> num_nodes - a, acute |-> a, chronic |-> 0,
         aids |-> 0, dead |-> 0]

\* the outcome of the draws of one week, fixed by the generator's seed: a
\* number in 0..Draws-1, the most nodes a transition can move that week
Draw(rng, week) == Min((rng + week) % (Draws + 1), Draws - 1)

\* a week in which the nodes that die leave the counts
EpidemicStepLeaky(s, d) ==
    LET inf == IF s.acute + s.chronic > 0 THEN Min(s.susceptible, d) ELSE 0
        ac  == Min(s.acute, d)
        ca  == Min(s.chronic, d)
        ad  == Min(s.aids, d)
    IN  [susceptible |-> s.susceptible - inf,
         acute       |-> s.acute + inf - ac,
         chronic     |-> s.chronic + ac - ca,
         aids        |-> s.aids + ca - ad,
         dead        |-> s.dead]

\* a week in which Chronic nodes recover to Susceptible
EpidemicStepRecovering(s, d) ==
    LET ac  == Min(s.acute, d)
        ca  == Min(s.chronic, d)
        ad  == Min(s.aids, d)
    IN  [susceptible |-> s.susceptible + ca,
         acute       |-> s.acute - ac,
         chronic     |-> s.chronic + ac - ca,
         aids        |-> s.aids - ad,
         dead        |-> s.dead + ad]

\* one week of the epidemic process on the counts, all from the old counts
EpidemicStep(s, d) ==
    LET inf == IF s.acute + s.chronic > 0 THEN Min(s.susceptible, d) ELSE 0
        ac  == Min(s.acute, d)
        ca  == Min(s.chronic, d)
        ad  == Min(s.aids, d)
    IN  [susceptible |-> s.susceptible - inf,
         acute       |-> s.acute + inf - ac,
         chronic     |-> s.chronic + ac - ca,
         aids        |-> s.aids + ca - ad,
         dead        |-> s.dead + ad]

\* construction fails on a node count below one (InvalidTopology)
ConstructorFails(num_nodes) == num_nodes < 1

\* NetworkModel(seed=..., network_seed=..., ...); e is the entropy an
\* unseeded generator draws.  g_use, g_base, g_i are history: the checkbox,
\* the base seed and the index under which create_models built the run.
NetworkModel(seed, network_seed, num_nodes, iop, mode, prep, e, gu, gb, gi) ==
    [seed |-> seed,
     rng |-> IF seed.some THEN seed.val ELSE e,
     network_seed |-> network_seed,
     num_nodes |-> num_nodes,
     iop |-> iop,
     mode |-> mode,
     prep |-> prep,
     states_per_time |-> <<Week0(num_nodes, iop)>>,
     g_use |-> gu, g_base |-> gb, g_i |-> gi]

RECURSIVE Trajectory(_, _, _, _)
\* the first len snapshots of a run whose generator has the seed rng
Trajectory(rng, num_nodes, iop, len) ==
    IF len <= 1
    THEN <<Week0(num_nodes, iop)>>
    ELSE LET p == Trajectory(rng, num_nodes, iop, len - 1)
         IN  Append(p, EpidemicStep(p[len - 1], Draw(rng, len - 1)))

\* NetworkModel.step(): append one snapshot
step(m) ==
    [m EXCEPT !.states_per_time =
        Append(@, EpidemicStep(@[Len(@)], Draw(m.rng, Len(@))))]


(***************************************************************************)
(* Helpers of the handlers.                                                *)
(***************************************************************************)
\* a loop that steps the first run only
StepFirstOnly(ms) == [j \in 1..Len(ms) |-> IF j = 1 THEN step(ms[j]) ELSE ms[j]]

\* for m in models: m.step()
StepAll(ms) == [j \in 1..Len(ms) |-> step(ms[j])]

RECURSIVE StepAllN(_, _)
\* n rounds of "for m in models: m.step()"
StepAllN(ms, n) == IF n <= 0 THEN ms ELSE StepAllN(StepAll(ms), n - 1)

\* an off-by-one ceiling test
AtCeilingLate(tt, max_t) == tt > max_t

\* a ceiling test that stops one week early
AtCeilingEarly(tt, max_t) == tt + 1 >= max_t

\* the ceiling test of step_once (line 90) and tick (line 113)
AtCeiling(tt, max_t) == tt >= max_t

\* steps of a tick that ignores the weeks that remain
TickStepsUnclamped(spu, max_t, tt) == Max(1, spu)

\* steps of one tick (lines 116-118)
TickSteps(spu, max_t, tt) == Min(Max(1, spu), max_t - tt)

\* a tick that schedules no successor
ScheduledNone(p) == p

\* the callbacks scheduled after window.after(..., tick) (line 134), p
\* having been scheduled before
Scheduled(p) == p + 1

\* a seed argument without the index
RunSeedNoIndex(use, base, i) == IF use THEN Some(base) ELSE None

\* a seed argument that ignores the checkbox
RunSeedUnseeded(use, base, i) == None

\* the seed create_models passes for run i, 0-based (line 481)
RunSeed(use, base, i) == IF use THEN Some(base + i) ELSE None

\* nx.random_layout(model.graph, seed=int(network_seed_input.get()))
Layout(m, net) == [nodes |-> m.num_nodes, topology |-> m.network_seed, seed |-> net]

\* global model: the object models[0] (attached), or an object that is no
\* longer in models
Attached == [attached |-> TRUE]
Detached(m) == [attached |-> FALSE, obj |-> m]
ModelObj == IF model.attached THEN models[1] ELSE model.obj

\* history records: the handler that ran and how it ended; rounds: the
\* rounds of step() calls it made on the active ensemble; jobdone: a batch
\* job was exported in this step; att, skipped: the jobs a batch_export that
\* ended had attempted and skipped
Did(op) ==
    [op |-> op, err |-> "none", rounds |-> 0, jobdone |-> FALSE, att |-> <<>>,
     skipped |-> 0]
Raised(op, err) == [Did(op) EXCEPT !.err = err]
\* the handler ran n rounds of "for m in models: m.step()"
Stepped(op, n) == [Did(op) EXCEPT !.rounds = n]

NoFile == [dir |-> <<>>]

\* Path("sim_results") (line 411) and data_root / mode (lines 539, 548), as
\* sequences of path components
SimResults == <<"sim_results">>
ModeDir(mode) == <<"data", mode>>

Pop(st) == SubSeq(st, 1, Len(st) - 1)
Top(st) == st[Len(st)]

(***************************************************************************)
(* export_csv_raw_runs (lines 406-468).  The file name's fields, the       *)
(* header and the data rows as written (header, lines), and the snapshots  *)
(* the rows were taken from (rows): one row per week 0..t, for each run    *)
(* its snapshot or the zero placeholder.                                   *)
(***************************************************************************)
ZeroRow == [susceptible |-> 0, acute |-> 0, chronic |-> 0, aids |-> 0, dead |-> 0]

\* a number of data rows that leaves the current week out
WeeksShort(max_week) == max_week

\* T = max_week + 1 (line 443)
Weeks(max_week) == max_week + 1

\* a column name: "week", or f"{k}_{run_idx+1}" with its run number
Col(name, run) == [name |-> name, run |-> run]

\* for k in KEYS: header.append(f"{k}_{run_idx+1}") (lines 450-451)
RunColumns(run_idx) == [c \in 1..Len(KEYS) |-> Col(KEYS[c], run_idx + 1)]

RECURSIVE HeaderFrom(_, _)
\* the columns that "for run_idx in range(num_runs)" appends from run_idx on
HeaderFrom(run_idx, num_runs) ==
    IF run_idx >= num_runs
    THEN <<>>
    ELSE RunColumns(run_idx) \o HeaderFrom(run_idx + 1, num_runs)

\* the header row (lines 448-452)
Header(num_runs) ==
    <<Col("week", 0), Col("mode", 0), Col("prep", 0)>> \o HeaderFrom(0, num_runs)

\* the snapshot a row takes from the history r at a week (lines 458-461)
RowSnapshot(r, week) == IF week < Len(r) THEN r[week + 1] ELSE ZeroRow

\* for k in KEYS: row.append(d.get(k, 0)) (lines 463-464)
RunFields(d) == [c \in 1..Len(KEYS) |-> d[KEYS[c]]]

RECURSIVE RowFields(_, _)
\* the fields that "for r in runs" appends to the row of a week
RowFields(runs, week) ==
    IF runs = <<>>
    THEN <<>>
    ELSE RunFields(RowSnapshot(Head(runs), week)) \o RowFields(Tail(runs), week)

\* a data row: [week, mode, prep] and the fields of the runs (lines 455-466)
Row(week, md, prep, runs) ==
    [week |-> week, mode |-> md, prep |-> prep, fields |-> RowFields(runs, week)]

\* int(prep * 100) (line 422) of a prep of h hundredths: the product of the
\* doubles 0.29, 0.57 and 0.58 with 100 lies below the integer
PrepPct(h) == IF h \in {29, 57, 58} THEN h - 1 ELSE h

\* the runs are so small that a whole batch job over them can end within
\* the second of the clock in which the previous file was written
Quick(ms) == \A r \in 1..Len(ms) : ms[r].num_nodes <= 1

\* datetime.now().strftime("%Y%m%d_%H%M%S") (line 427) has a resolution of
\* one second.  again: the timestamp is the one of the file written before
\* this one.  A click on Export CSV can follow the previous file within the
\* second; a batch job can if it is Quick.
ClickStamps(old) == IF old = NoFile THEN {FALSE} ELSE BOOLEAN
JobStamps(old, ms) == IF old # NoFile /\ Quick(ms) THEN BOOLEAN ELSE {FALSE}

ExportFile(dir, ms, tt, in, md, again) ==
    [dir      |-> dir,
     again    |-> again,
     mode     |-> md,
     prep_pct |-> PrepPct(in.prep),
     weeks    |-> tt,
     nodes    |-> in.num_nodes,
     netseed  |-> in.network_seed,
     iters    |-> in.iterations,
     num_runs |-> Len(ms),
     header   |-> Header(Len(ms)),
     lines    |-> [w \in 1..Weeks(tt) |->
                     Row(w - 1, md, in.prep,
                         [r \in 1..Len(ms) |-> ms[r].states_per_time])],
     rows     |-> [w \in 1..(tt + 1) |->
                     [r \in 1..Len(ms) |->
                        IF w - 1 < Len(ms[r].states_per_time)
                        THEN ms[r].states_per_time[w]
                        ELSE ZeroRow]]]

export_csv_raw_runs ==
    /\ \E again \in ClickStamps(exported) :
         exported' = ExportFile(SimResults, models, t, inp, mode_var, again)
    /\ last' = Did("export_csv_raw_runs")
    /\ UNCHANGED <<t, running, models, model, pos, inp, use_seed, mode_var,
                   pending, title, stack, paused>>

(***************************************************************************)
(* Step, Start, Pause and the timer callback.                              *)
(***************************************************************************)
\* the rounds n can be run without a run exceeding MaxSnapshots
Room(n) ==
    \A j \in 1..Len(models) :
        Len(models[j].states_per_time) + n <= MaxSnapshots

\* step_once (lines 81-101)
step_once ==
    /\ IF AtCeiling(t, inp.max_t)
       THEN /\ UNCHANGED <<t, models, title>>
            /\ last' = Stepped("step_once", 0)
       ELSE /\ Room(1)
            /\ models' = StepAll(models)
            /\ t' = t + 1
            /\ title' = "t"
            /\ last' = Stepped("step_once", 1)
    /\ paused' = FALSE
    /\ UNCHANGED <<running, model, pos, inp, use_seed, mode_var, pending,
                   stack, exported>>

\* the body of tick (lines 103-134), called by op with the flag r and with
\* p callbacks scheduled besides the one that may be running
tick(op, r, p) ==
    IF ~r \/ AtCeiling(t, inp.max_t)
    THEN /\ UNCHANGED <<t, models, title>>
         /\ pending' = p
         /\ last' = Stepped(op, 0)
    ELSE LET steps == TickSteps(inp.spu, inp.max_t, t)
         IN  /\ Room(steps)
             /\ models' = StepAllN(models, steps)
             /\ t' = t + steps
             /\ title' = "t"
             /\ pending' = Scheduled(p)
             /\ last' = Stepped(op, steps)

\* a callback scheduled by window.after fires
tick_fire ==
    /\ pending > 0
    /\ tick("tick", running, pending - 1)
    /\ UNCHANGED <<running, model, pos, inp, use_seed, mode_var, stack,
                   exported, paused>>

\* start_animation (lines 136-147)
start_animation ==
    /\ pending < MaxPending
    /\ IF running
       THEN /\ UNCHANGED <<running, t, models, title, pending>>
            /\ last' = Stepped("start_animation", 0)
       ELSE /\ running' = TRUE
            /\ tick("start_animation", TRUE, pending)
    /\ paused' = FALSE
    /\ UNCHANGED <<model, pos, inp, use_seed, mode_var, stack, exported>>

\* stop_animation (lines 149-157)
stop_animation ==
    /\ running' = FALSE
    /\ last' = Did("stop_animation")
    /\ paused' = TRUE
    /\ UNCHANGED <<t, models, model, pos, inp, use_seed, mode_var, pending,
                   title, stack, exported>>

(***************************************************************************)
(* The user edits an input, the checkbox or the dropdown.                  *)
(***************************************************************************)
set_input(name, v) ==
    /\ inp[name] # v
    /\ inp' = [inp EXCEPT ![name] = v]
    /\ last' = Did("set_input")
    /\ UNCHANGED <<t, running, models, model, pos, use_seed, mode_var,
                   pending, title, stack, exported, paused>>

toggle_use_seed ==
    /\ use_seed' = ~use_seed
    /\ last' = Did("set_input")
    /\ UNCHANGED <<t, running, models, model, pos, inp, mode_var, pending,
                   title, stack, exported, paused>>

set_mode(md) ==
    /\ mode_var # md
    /\ mode_var' = md
    /\ last' = Did("set_input")
    /\ UNCHANGED <<t, running, models, model, pos, inp, use_seed, pending,
                   title, stack, exported, paused>>


(***************************************************************************)
(* create_models (lines 470-489) and the handlers that call it.  A frame   *)
(* of the stack is a call of create_models suspended at window.update()    *)
(* before the construction of run i: fn is the calling handler, k and      *)
(* built (the local list models) are its locals, job is the job counter of *)
(* batch_export.  att and skipped are history: the jobs the batch_export   *)
(* has attempted and skipped so far.                                       *)
(***************************************************************************)
Frame(fn, k, job, att, skipped) ==
    [fn |-> fn, k |-> k, i |-> 0, built |-> <<>>, job |-> job, att |-> att,
     skipped |-> skipped]

\* "models = create_models(); model = models[0]" as far as the first
\* window.update(): with k = 0 the loop is empty, models becomes [] and
\* models[0] raises IndexError, which ends the handler
EnterCreate(fn, in, rest, job, att, skipped, ms, mo, lst) ==
    IF in.iterations <= 0
    THEN /\ title' = "ready"
         /\ models' = <<>>
         /\ model' = IF mo.attached THEN Detached(ms[1]) ELSE mo
         /\ stack' = rest
         /\ last' = [lst EXCEPT !.op = fn, !.err = "IndexError",
                                !.att = att, !.skipped = skipped]
    ELSE /\ title' = "creating"
         /\ models' = ms
         /\ model' = mo
         /\ stack' = Append(rest, Frame(fn, in.iterations, job, att, skipped))
         /\ last' = [lst EXCEPT !.op = "window.update"]

\* apply_settings (lines 278-294), as far as the first window.update()
apply_settings ==
    /\ Len(stack) < MaxDepth
    /\ running' = FALSE
    /\ t' = 0
    /\ EnterCreate("apply_settings", inp, stack, 0, <<>>, 0,
                   models, model, Did("apply_settings"))
    /\ paused' = FALSE
    /\ UNCHANGED <<pos, inp, use_seed, mode_var, pending, exported>>

\* reset_model (lines 296-319), as far as the first window.update()
reset_model ==
    /\ Len(stack) < MaxDepth
    /\ running' = FALSE
    /\ inp' = settings
    /\ use_seed' = FALSE
    /\ t' = 0
    /\ EnterCreate("reset_model", settings, stack, 0, <<>>, 0,
                   models, model, Did("reset_model"))
    /\ paused' = FALSE
    /\ UNCHANGED <<pos, mode_var, pending, exported>>

(***************************************************************************)
(* batch_export (lines 491-580).  The jobs are the (mode, prep) pairs in   *)
(* modes-major order, numbered from 1 like the job counter.                *)
(***************************************************************************)
TotalJobs == Len(modes) * NumPrepValues
JobMode(j) == modes[((j - 1) \div NumPrepValues) + 1]
JobPrep(j) == prep_values[((j - 1) % NumPrepValues) + 1]
JobPair(j) == [mode |-> JobMode(j), prep |-> JobPrep(j)]
JobList == [j \in 1..TotalJobs |-> JobPair(j)]

\* an except branch that leaves the loops
AfterValueErrorBreak(job) == TotalJobs + 1

\* the job counter after a job that raised ValueError (lines 572-578)
AfterValueError(job) == job + 1

\* the while loop of a job (lines 565-568): rounds still to run at week tt
BatchRounds(tt) == IF tt < BatchMaxT THEN BatchMaxT - tt ELSE 0

\* job j begins (lines 546-562), or the loops are over (line 580); in, md,
\* tt, ms, mo are the inputs, mode, t, models and model at this point
BatchNext(j, in, md, tt, rest, att, skipped, ms, mo, lst) ==
    IF j > TotalJobs
    THEN /\ title' = "done"
         /\ inp' = in
         /\ mode_var' = md
         /\ t' = tt
         /\ models' = ms
         /\ model' = mo
         /\ stack' = rest
         /\ last' = [lst EXCEPT !.op = "batch_export", !.att = att,
                                !.skipped = skipped]
    ELSE /\ inp' = [in EXCEPT !.prep = JobPrep(j)]
         /\ mode_var' = IF (j - 1) % NumPrepValues = 0 THEN JobMode(j) ELSE md
         /\ t' = 0
         /\ EnterCreate("batch_export", [in EXCEPT !.prep = JobPrep(j)],
                        rest, j, Append(att, JobPair(j)), skipped,
                        ms, mo, lst)

\* batch_export as far as the first window.update()
batch_export ==
    /\ Len(stack) < MaxDepth
    /\ running' = FALSE
    /\ BatchNext(1, [inp EXCEPT !.max_t = BatchMaxT,
                                !.iterations = BatchIterations,
                                !.num_nodes = BatchNumNodes,
                                !.network_seed = BatchNetworkSeed],
                 mode_var, t, stack, <<>>, 0, models, model,
                 Did("batch_export"))
    /\ paused' = FALSE
    /\ UNCHANGED <<pos, use_seed, pending, exported>>

(***************************************************************************)
(* window.update() returns and create_models goes on (lines 480-489).      *)
(***************************************************************************)
\* the run built at line 480 from the inputs as they are now
NewRun(i, e) ==
    NetworkModel(RunSeed(use_seed, inp.seed, i), inp.network_seed,
                 inp.num_nodes, inp.iop, mode_var, inp.prep, e,
                 use_seed, inp.seed, i)

\* run i is built and the loop goes to the next window.update()
create_models_next ==
    /\ stack # <<>>
    /\ ~ConstructorFails(inp.num_nodes)
    /\ Top(stack).i + 1 < Top(stack).k
    /\ \E e \in Entropy :
         stack' = [stack EXCEPT ![Len(stack)] =
                     [@ EXCEPT !.built = Append(@, NewRun(Top(stack).i, e)),
                               !.i = @ + 1]]
    /\ title' = "creating"
    /\ last' = Did("window.update")
    /\ UNCHANGED <<t, running, models, model, pos, inp, use_seed, mode_var,
                   pending, exported, paused>>

\* the constructor raises in apply_settings or reset_model: the handler ends
create_models_raises ==
    /\ stack # <<>>
    /\ Top(stack).fn # "batch_export"
    /\ ConstructorFails(inp.num_nodes)
    /\ stack' = Pop(stack)
    /\ last' = Raised(Top(stack).fn, "ValueError")
    /\ UNCHANGED <<t, running, models, model, pos, inp, use_seed, mode_var,
                   pending, title, exported, paused>>

\* the last run is built, create_models returns and apply_settings or
\* reset_model runs to its end
rebuild_done ==
    /\ stack # <<>>
    /\ Top(stack).fn # "batch_export"
    /\ ~ConstructorFails(inp.num_nodes)
    /\ Top(stack).i + 1 >= Top(stack).k
    /\ \E e \in Entropy :
         models' = Append(Top(stack).built, NewRun(Top(stack).i, e))
    /\ model' = Attached
    /\ pos' = Layout(models'[1], inp.network_seed)
    /\ title' = "ready"
    /\ stack' = Pop(stack)
    /\ last' = Did(Top(stack).fn)
    /\ UNCHANGED <<t, running, inp, use_seed, mode_var, pending, exported,
                   paused>>

\* the constructor raises in a batch job: the job is skipped
batch_job_skipped ==
    /\ stack # <<>>
    /\ Top(stack).fn = "batch_export"
    /\ ConstructorFails(inp.num_nodes)
    /\ BatchNext(AfterValueError(Top(stack).job), inp, mode_var, t,
                 Pop(stack), Top(stack).att, Top(stack).skipped + 1,
                 models, model, Did("batch_export"))
    /\ UNCHANGED <<running, pos, use_seed, pending, exported, paused>>

\* the last run of a batch job is built; the job steps its models to max_t,
\* exports them and the next job begins
batch_job_done ==
    /\ stack # <<>>
    /\ Top(stack).fn = "batch_export"
    /\ ~ConstructorFails(inp.num_nodes)
    /\ Top(stack).i + 1 >= Top(stack).k
    /\ \E e \in Entropy :
         LET f    == Top(stack)
             ms   == StepAllN(Append(f.built, NewRun(f.i, e)), BatchRounds(t))
             tt   == t + BatchRounds(t)
         IN  /\ \E again \in JobStamps(exported, ms) :
                  exported' = ExportFile(ModeDir(JobMode(f.job)), ms, tt, inp,
                                         mode_var, again)
             /\ BatchNext(f.job + 1, inp, mode_var, tt, Pop(stack), f.att,
                          f.skipped, ms, Attached,
                          [Did("batch_export") EXCEPT !.jobdone = TRUE])
    /\ UNCHANGED <<running, pos, use_seed, pending, paused>>


(***************************************************************************)
(* The program after the module has run (lines 819-830): the defaults, and *)
(* an ensemble built from them by create_models.                           *)
(***************************************************************************)
InitialModels ==
    { [j \in 1..DefaultIterations |->
          NetworkModel(None, DefaultNetworkSeed, DefaultNumNodes,
                       DefaultIopPct, "standard", DefaultPrepPct, e[j],
                       FALSE, DefaultSeed, j - 1)] :
      e \in [1..DefaultIterations -> Entropy] }

\* the program after the module has run, its inputs then set to in
InitWith(in) ==
    /\ t = 0
    /\ running = FALSE
    /\ models \in InitialModels
    /\ model = Attached
    /\ pos = Layout(models[1], DefaultNetworkSeed)
    /\ inp = in
    /\ use_seed = FALSE
    /\ mode_var = "standard"
    /\ pending = 0
    /\ title = "ready"
    /\ stack = <<>>
    /\ exported = NoFile
    /\ last = Did("init")
    /\ paused = FALSE

Init == InitWith(settings)

(***************************************************************************)
(* Events.  Tk dispatches an event from mainloop, or from window.update()  *)
(* inside create_models while the handler on the stack is in progress.     *)
(* The specifications differ in the events the session's user produces.    *)
(***************************************************************************)
\* Step, Start, Pause and the timer
Animate ==
    \/ step_once
    \/ tick_fire
    \/ start_animation
    \/ stop_animation

\* The whole session, its inputs changed by Default Settings and Batch CSV
\* only.
Next ==
    \/ Animate
    \/ apply_settings
    \/ reset_model
    \/ batch_export
    \/ create_models_next
    \/ rebuild_done
    \/ batch_job_done

Spec == Init /\ [][Next]_vars

(***************************************************************************)
(* The animation alone: Step, Start, Pause and the timer, with the inputs  *)
(* "Max timesteps:" and "Steps per update:" typed before the first step    *)
(* and left alone afterwards.                                              *)
(***************************************************************************)
MaxTValues == 0 .. (DefaultMaxT + 1)
SpuValues == {-1, 0, 1, 2, 10}

InitAnim ==
    \E m \in MaxTValues, s \in SpuValues :
        InitWith([settings EXCEPT !.max_t = m, !.spu = s])

SpecAnim == InitAnim /\ [][Animate]_vars

(***************************************************************************)
(* C1.  With "Max timesteps:" held at M, t <= M in every state reached by  *)
(* Step, Start, Pause and timer firings; and any of them run when t >= M   *)
(* makes no step() call, leaves t and every run as they are, and raises    *)
(* nothing.                                                                *)
(***************************************************************************)
C1_Ceiling ==
    /\ [](t <= inp.max_t)
    /\ [][t >= inp.max_t =>
            /\ t' = t
            /\ models' = models
            /\ last'.rounds = 0
            /\ last'.err = "none"]_vars

\* Step was clicked, or a running tick fired, at the ceiling after real steps
C1_Witness ==
    /\ t = inp.max_t
    /\ t > 0
    /\ last.rounds = 0
    /\ \/ last.op = "step_once"
       \/ last.op = "tick" /\ running

(***************************************************************************)
(* C2.  Whenever Tk is dispatching events (from mainloop, or from          *)
(* window.update() with a handler in progress), every run of the active    *)
(* ensemble has received the same number of step() calls: all              *)
(* states_per_time of the global list models have one length.              *)
(***************************************************************************)
C2_LockStep ==
    \A i, j \in 1..Len(models) :
        Len(models[i].states_per_time) = Len(models[j].states_per_time)

\* mainloop has control and an ensemble of several runs was stepped by ticks
C2_Witness ==
    /\ stack = <<>>
    /\ Len(models) >= 2
    /\ Len(models[1].states_per_time) >= 3
    /\ last.op = "tick"
    /\ last.rounds > 0

(***************************************************************************)
(* C3.  When apply_settings returns normally, running is False, t is 0,    *)
(* models holds exactly `iterations` fresh runs of one snapshot each and   *)
(* model is models[0], whatever events window.update() dispatched          *)
(* meanwhile.                                                              *)
(***************************************************************************)
C3_ApplyReturns ==
    (last.op = "apply_settings" /\ last.err = "none") =>
        /\ ~running
        /\ t = 0
        /\ Len(models) = inp.iterations
        /\ \A j \in 1..Len(models) : Len(models[j].states_per_time) = 1
        /\ model.attached

(***************************************************************************)
(* C4.  After Pause, as long as no Start, Step, Apply, Reset or Batch      *)
(* event is dispatched, t and every run's states_per_time stay as they     *)
(* are.                                                                    *)
(***************************************************************************)
Histories(ms) == [j \in 1..Len(ms) |-> ms[j].states_per_time]

C4_PauseFreezes ==
    [][(paused /\ paused') =>
          (t' = t /\ Histories(models') = Histories(models))]_vars

(***************************************************************************)
(* C5.  When a batch job has exported its file, each of its runs has been  *)
(* stepped exactly max_t times from week 0, and the file holds exactly the *)
(* weeks 0..max_t of every run, whatever events window.update() dispatched *)
(* during the job.                                                         *)
(***************************************************************************)
C5_BatchJobComplete ==
    last.jobdone =>
        /\ exported.weeks = BatchMaxT
        /\ Len(exported.rows) = BatchMaxT + 1
        /\ \A w \in 1..Len(exported.rows) :
             \A r \in 1..exported.num_runs : exported.rows[w][r] # ZeroRow
        /\ \A j \in 1..Len(models) :
             Len(models[j].states_per_time) = BatchMaxT + 1

(***************************************************************************)
(* Batch CSV with a user who, while it runs, drags "Number of nodes:" to 0 *)
(* and back and empties "Iterations (runs):", and clicks Step, Start and   *)
(* Pause.  A node count of 0 makes the constructor raise; 0 iterations     *)
(* make models[0] raise IndexError, which batch_export does not catch.     *)
(***************************************************************************)
BatchEdits ==
    {<<"num_nodes", 0>>, <<"num_nodes", BatchNumNodes>>,
     <<"iterations", 0>>, <<"iterations", BatchIterations>>}

NextBatch ==
    \/ Animate
    \/ batch_export
    \/ create_models_next
    \/ batch_job_done
    \/ batch_job_skipped
    \/ \E e \in BatchEdits : set_input(e[1], e[2])

SpecBatch == Init /\ [][NextBatch]_vars

(***************************************************************************)
(* C6.  A job that raises ValueError is skipped and nothing else: the job  *)
(* counter advances, so the jobs a batch_export has attempted are at any   *)
(* moment the first `job` (mode, prep) pairs in modes-major order, once    *)
(* each; and a batch_export that ends with no other exception has          *)
(* attempted every pair and shows the BATCH EXPORT DONE title.             *)
(***************************************************************************)
C6_SkipsOnlyThatJob ==
    /\ \A d \in 1..Len(stack) :
         stack[d].fn = "batch_export" =>
            /\ stack[d].job \in 1..TotalJobs
            /\ stack[d].att = SubSeq(JobList, 1, stack[d].job)
            /\ stack[d].skipped < stack[d].job
    /\ (last.op = "batch_export" /\ last.err = "none") =>
            /\ last.att = JobList
            /\ title = "done"

\* a batch_export ended whose first job was skipped and whose last job was
\* exported
C6_Witness ==
    /\ last.op = "batch_export"
    /\ last.err = "none"
    /\ last.skipped = 1
    /\ last.jobdone
    /\ title = "done"

(***************************************************************************)
(* Apply Settings with a user who, before and while it runs, types in      *)
(* "Interaction seed:", ticks the checkbox, and clicks Step, Start and     *)
(* Pause.                                                                  *)
(***************************************************************************)
RebuildEdits == {<<"seed", DefaultSeed>>, <<"seed", DefaultSeed + 1>>}

NextRebuild ==
    \/ Animate
    \/ apply_settings
    \/ create_models_next
    \/ rebuild_done
    \/ toggle_use_seed
    \/ \E e \in RebuildEdits : set_input(e[1], e[2])

SpecRebuild == Init /\ [][NextRebuild]_vars

\* the ensembles there are: the active one and those being built
Ensembles == {models} \cup {stack[d].built : d \in 1..Len(stack)}

(***************************************************************************)
(* C8.  create_models entered with iterations = k returns exactly k runs;  *)
(* the run at 0-based index i is constructed with seed b + i when the      *)
(* checkbox is checked and the base seed is b, and with None when it is    *)
(* unchecked; runs of one ensemble built from one base seed have pairwise  *)
(* distinct seeds.                                                         *)
(***************************************************************************)
C8_SeedsByIndex ==
    /\ [](\A L \in Ensembles :
            /\ \A j \in 1..Len(L) :
                 /\ L[j].g_i = j - 1
                 /\ L[j].seed = IF L[j].g_use THEN Some(L[j].g_base + (j - 1))
                                ELSE None
            /\ \A i, j \in 1..Len(L) :
                 (i # j /\ L[i].g_use /\ L[j].g_use
                    /\ L[i].g_base = L[j].g_base) => L[i].seed # L[j].seed)
    /\ [](\A d \in 1..Len(stack) :
            stack[d].i = Len(stack[d].built) /\ stack[d].i < stack[d].k)
    /\ [][(stack # <<>> /\ stack' = Pop(stack) /\ last'.err = "none") =>
            Len(models') = Top(stack).k]_vars

\* apply_settings returned an ensemble of several runs built with the
\* checkbox checked
C8_Witness ==
    /\ last.op = "apply_settings"
    /\ last.err = "none"
    /\ Len(models) >= 2
    /\ \A j \in 1..Len(models) : models[j].g_use

(***************************************************************************)
(* C9.  A run built with the checkbox checked has a states_per_time that   *)
(* is a function of its inputs (base seed, index, num_nodes, initial       *)
(* outbreak proportion) and of the number of steps it has taken, by Step   *)
(* clicks or ticks: two ensembles built from identical inputs and advanced *)
(* by the same number of steps are identical, run by run and week by week. *)
(***************************************************************************)
C9_Reproducible ==
    \A L \in Ensembles :
        \A j \in 1..Len(L) :
            L[j].g_use =>
                L[j].states_per_time =
                    Trajectory(L[j].g_base + L[j].g_i, L[j].num_nodes,
                               L[j].iop, Len(L[j].states_per_time))

\* an ensemble built with the checkbox checked was stepped by Step clicks
\* and by a tick
C9_Witness ==
    /\ Len(models) >= 2
    /\ \A j \in 1..Len(models) :
         models[j].g_use /\ Len(models[j].states_per_time) >= 3
    /\ last.op = "tick"
    /\ last.rounds > 0

(***************************************************************************)
(* Apply Settings with a user who, before and while it runs, types in      *)
(* "Network seed:", drags "Number of nodes:" to 0 and back, picks a mode   *)
(* and clicks Step.                                                        *)
(***************************************************************************)
TopologyEdits ==
    {<<"network_seed", DefaultNetworkSeed>>,
     <<"network_seed", DefaultNetworkSeed + 1>>,
     <<"num_nodes", 0>>,
     <<"num_nodes", DefaultNumNodes>>}

NextTopology ==
    \/ step_once
    \/ apply_settings
    \/ create_models_next
    \/ create_models_raises
    \/ rebuild_done
    \/ \E md \in Modes : set_mode(md)
    \/ \E e \in TopologyEdits : set_input(e[1], e[2])

SpecTopology == Init /\ [][NextTopology]_vars

ResetEdits ==
    {<<"network_seed", DefaultNetworkSeed>>,
     <<"network_seed", DefaultNetworkSeed + 1>>,
     <<"max_t", DefaultMaxT>>,
     <<"max_t", 1>>}

NextReset ==
    \/ stack = <<>> /\ Animate
    \/ stack = <<>> /\ reset_model
    \/ stack = <<>> /\ toggle_use_seed
    \/ stack = <<>> /\ \E md \in Modes : set_mode(md)
    \/ stack = <<>> /\ \E e \in ResetEdits : set_input(e[1], e[2])
    \/ create_models_next
    \/ rebuild_done

SpecReset == Init /\ [][NextReset]_vars

(***************************************************************************)
(* C10.  When reset_model returns, every input is at its registered        *)
(* default, the checkbox is unchecked, the mode is "standard", running is  *)
(* False and t is 0.                                                       *)
(***************************************************************************)
C10_ResetRestores ==
    (last.op = "reset_model" /\ last.err = "none") =>
        /\ inp = settings
        /\ ~use_seed
        /\ mode_var = "standard"
        /\ ~running
        /\ t = 0

(***************************************************************************)
(* Export CSV with a user who clicks Step, rebuilds the session with       *)
(* Apply Settings and types 0, 1 or the default in "Iterations (runs):",   *)
(* before and while Apply Settings runs.                                   *)
(***************************************************************************)
ExportEdits ==
    {<<"iterations", 0>>, <<"iterations", 1>>,
     <<"iterations", DefaultIterations>>}

NextExport ==
    \/ step_once
    \/ apply_settings
    \/ create_models_next
    \/ rebuild_done
    \/ export_csv_raw_runs
    \/ \E e \in ExportEdits : set_input(e[1], e[2])

SpecExport == Init /\ [][NextExport]_vars

(***************************************************************************)
(* C11.  A file exported at GUI time t for an ensemble of k runs has the   *)
(* header week, mode, prep followed for run 1..k, in order, by             *)
(* susceptible_i, acute_i, chronic_i, aids_i, dead_i, and then exactly     *)
(* t + 1 data rows, for the weeks 0..t in ascending order, each of         *)
(* 3 + 5k fields (week, mode, prep and 5k counts).                         *)
(***************************************************************************)
C11_FileLayout ==
    last.op = "export_csv_raw_runs" =>
        LET k == Len(models)
            h == exported.header
        IN  /\ Len(h) = 3 + 5 * k
            /\ h[1] = Col("week", 0)
            /\ h[2] = Col("mode", 0)
            /\ h[3] = Col("prep", 0)
            /\ \A i \in 1..k :
                 /\ h[3 + 5 * (i - 1) + 1] = Col("susceptible", i)
                 /\ h[3 + 5 * (i - 1) + 2] = Col("acute", i)
                 /\ h[3 + 5 * (i - 1) + 3] = Col("chronic", i)
                 /\ h[3 + 5 * (i - 1) + 4] = Col("aids", i)
                 /\ h[3 + 5 * (i - 1) + 5] = Col("dead", i)
            /\ Len(exported.lines) = t + 1
            /\ \A w \in 1..Len(exported.lines) :
                 /\ exported.lines[w].week = w - 1
                 /\ 3 + Len(exported.lines[w].fields) = 3 + 5 * k

\* two runs stepped twice were exported
C11_Witness ==
    /\ last.op = "export_csv_raw_runs"
    /\ Len(models) = 2
    /\ t = 2
    /\ Len(exported.lines) = 3

(***************************************************************************)
(* C12.  In a file written by export_csv_raw_runs in any state of the GUI, *)
(* the five counts of every run in every data row are the run's own        *)
(* states_per_time[week] snapshot and sum to the run's num_nodes; no row   *)
(* holds the zero placeholder of line 461.                                 *)
(***************************************************************************)
C12_RowsAreSnapshots ==
    last.op = "export_csv_raw_runs" =>
        \A w \in 1..Len(exported.rows) :
            \A r \in 1..Len(models) :
                LET d == exported.rows[w][r]
                IN  /\ w <= Len(models[r].states_per_time)
                    /\ d = models[r].states_per_time[w]
                    /\ exported.lines[w].fields[5 * (r - 1) + 1] = d.susceptible
                    /\ d.susceptible + d.acute + d.chronic + d.aids + d.dead
                         = models[r].num_nodes
                    /\ d # ZeroRow

(***************************************************************************)
(* Batch CSV, once or several times, with a user who while it runs types 1 *)
(* or the batch's value in "Number of nodes:" and one of the batch's PrEP  *)
(* levels in "Prep amount".                                                *)
(***************************************************************************)
PathEdits ==
    {<<"num_nodes", 1>>, <<"num_nodes", BatchNumNodes>>}
        \cup {<<"prep", prep_values[j]>> : j \in 1..NumPrepValues}

NextPaths ==
    \/ batch_export
    \/ create_models_next
    \/ batch_job_done
    \/ \E e \in PathEdits : set_input(e[1], e[2])

SpecPaths == Init /\ [][NextPaths]_vars

\* data_dir / filename (lines 429-439) without the timestamp
PathFields(f) ==
    [dir |-> f.dir, mode |-> f.mode, prep_pct |-> f.prep_pct,
     weeks |-> f.weeks, nodes |-> f.nodes, netseed |-> f.netseed,
     iters |-> f.iters]

(***************************************************************************)
(* C13.  No batch job writes to the path of an earlier file: the file a    *)
(* job exports differs from the file written before it in a field of its   *)
(* name or in its timestamp.                                               *)
(***************************************************************************)
C13_PathsUnique ==
    [][(last'.jobdone /\ exported # NoFile) =>
          ~(exported'.again /\ PathFields(exported') = PathFields(exported))]_vars

(***************************************************************************)
(* C14.  Every snapshot of every run, week 0 included, has exactly the     *)
(* keys susceptible, acute, chronic, aids, dead, each a non-negative       *)
(* integer, and its five counts sum to the run's num_nodes, after any      *)
(* number of step() calls.                                                 *)
(***************************************************************************)
C14_Conservation ==
    \A L \in Ensembles :
        \A j \in 1..Len(L) :
            \A w \in 1..Len(L[j].states_per_time) :
                LET s == L[j].states_per_time[w]
                IN  /\ DOMAIN s = {KEYS[c] : c \in 1..Len(KEYS)}
                    /\ \A c \in 1..Len(KEYS) : s[KEYS[c]] \in Nat
                    /\ s.susceptible + s.acute + s.chronic + s.aids + s.dead
                         = L[j].num_nodes

\* a run has been stepped until a node died
C14_Witness ==
    \E j \in 1..Len(models) :
        LET h == models[j].states_per_time
        IN  /\ Len(h) >= 5
            /\ h[Len(h)].dead > 0
            /\ h[Len(h)].susceptible < h[1].susceptible

(***************************************************************************)
(* C15.  In every run, from each week to the next the dead count does not  *)
(* fall and the susceptible count does not rise.                           *)
(***************************************************************************)
C15_Monotone ==
    \A L \in Ensembles :
        \A j \in 1..Len(L) :
            \A w \in 1..(Len(L[j].states_per_time) - 1) :
                /\ L[j].states_per_time[w + 1].dead
                     >= L[j].states_per_time[w].dead
                /\ L[j].states_per_time[w + 1].susceptible
                     <= L[j].states_per_time[w].susceptible

\* a run in which, over its weeks, nodes were infected, progressed to
\* Chronic and died
C15_Witness ==
    \E j \in 1..Len(models) :
        LET h == models[j].states_per_time
        IN  \E w \in 1..(Len(h) - 1) :
              /\ h[w + 1].dead > h[w].dead
              /\ h[w].chronic > 0
              /\ h[w].susceptible < h[1].susceptible

(***************************************************************************)
(* C16.  A step_once call made when t < "Max timesteps:" increases t by    *)
(* exactly 1 and appends exactly one snapshot to the states_per_time of    *)
(* every run of the active ensemble, whose earlier snapshots stay.         *)
(***************************************************************************)
C16_StepOnce ==
    [][(last'.op = "step_once" /\ t < inp.max_t) =>
          /\ t' = t + 1
          /\ last'.rounds = 1
          /\ Len(models') = Len(models)
          /\ \A j \in 1..Len(models) :
               LET h == models[j].states_per_time
                   g == models'[j].states_per_time
               IN  /\ Len(g) = Len(h) + 1
                   /\ SubSeq(g, 1, Len(h)) = h]_vars

\* Step was clicked below the ceiling on an ensemble of two runs, once from
\* mainloop and once more
C16_Witness ==
    /\ last.op = "step_once"
    /\ last.rounds = 1
    /\ t = 2
    /\ Len(models) = 2
    /\ \A j \in 1..Len(models) : Len(models[j].states_per_time) = 3

(***************************************************************************)
(* C17.  Every file a batch job writes is under the folder "sim_results",  *)
(* the folder of the Export CSV button, in a subfolder of its mode.        *)
(***************************************************************************)
C17_BatchFolder ==
    last.jobdone =>
        /\ Len(exported.dir) = 2
        /\ SubSeq(exported.dir, 1, 1) = SimResults
        /\ exported.dir[2] = exported.mode

(***************************************************************************)
(* Apply Settings with a user who clicks and types only while mainloop has *)
(* control: Step, Apply Settings, and 0 or the default in "Number of       *)
(* nodes:".                                                                *)
(***************************************************************************)
FailedEdits == {<<"num_nodes", 0>>, <<"num_nodes", DefaultNumNodes>>}

NextFailed ==
    \/ stack = <<>> /\ step_once
    \/ stack = <<>> /\ apply_settings
    \/ stack = <<>> /\ \E e \in FailedEdits : set_input(e[1], e[2])
    \/ create_models_next
    \/ create_models_raises
    \/ rebuild_done

SpecFailed == Init /\ [][NextFailed]_vars

(***************************************************************************)
(* C18.  Whenever mainloop has control, every run of the active ensemble   *)
(* has exactly t + 1 snapshots.                                            *)
(***************************************************************************)
C18_HistoryMatchesT ==
    stack = <<>> =>
        \A j \in 1..Len(models) : Len(models[j].states_per_time) = t + 1

SpecAnimFair == SpecAnim /\ WF_vars(tick_fire)

(***************************************************************************)
(* C20.  With "Max timesteps:" left alone: once the animation runs below   *)
(* the ceiling, t eventually equals max_t unless Pause is clicked; at the  *)
(* ceiling no step() is called any more, and eventually no tick callback   *)
(* remains scheduled.                                                      *)
(***************************************************************************)
C20_AnimationEnds ==
    /\ (running /\ t < inp.max_t) ~> (t = inp.max_t \/ ~running)
    /\ (t = inp.max_t) ~> (pending = 0)
    /\ [][t >= inp.max_t =>
            (Histories(models') = Histories(models) /\ last'.rounds = 0)]_vars

\* the animation reached the ceiling by timer callbacks and its last
\* callback has fired
C20_Witness ==
    /\ running
    /\ t = inp.max_t
    /\ t >= 2
    /\ pending = 0
    /\ last.op = "tick"
    /\ last.rounds = 0

(***************************************************************************)
(* C22.  At most one tick callback is scheduled with window.after at any   *)
(* time, whatever Start, Pause and Step clicks and timer firings there     *)
(* were: Pause followed by Start before the scheduled callback has fired   *)
(* does not leave two callbacks scheduled.                                 *)
(***************************************************************************)
C22_OneTickChain == pending <= 1

(***************************************************************************)
(* Export CSV with a user who clicks and types only while mainloop has     *)
(* control: Step, Apply Settings, Export CSV, the mode dropdown,           *)
(* "Network seed:" and "Prep amount".                                      *)
(***************************************************************************)
StaleEdits ==
    {<<"network_seed", DefaultNetworkSeed>>,
     <<"network_seed", DefaultNetworkSeed + 1>>,
     <<"prep", DefaultPrepPct>>,
     <<"prep", 2 * DefaultPrepPct>>}

NextStale ==
    \/ stack = <<>> /\ step_once
    \/ stack = <<>> /\ apply_settings
    \/ stack = <<>> /\ export_csv_raw_runs
    \/ stack = <<>> /\ \E md \in Modes : set_mode(md)
    \/ stack = <<>> /\ \E e \in StaleEdits : set_input(e[1], e[2])
    \/ create_models_next
    \/ rebuild_done

SpecStale == Init /\ [][NextStale]_vars

(***************************************************************************)
(* C23.  The mode, prep, nodes, netseed and iters of an exported file's    *)
(* name, and the mode and prep columns of its rows, are the parameters the *)
(* exported runs were constructed with, also after the user changed an     *)
(* input or the mode without pressing Apply Settings.                      *)
(***************************************************************************)
C23_NameMatchesRuns ==
    last.op = "export_csv_raw_runs" =>
        /\ exported.iters = Len(models)
        /\ \A r \in 1..Len(models) :
             /\ exported.mode = models[r].mode
             /\ exported.prep_pct = PrepPct(models[r].prep)
             /\ exported.nodes = models[r].num_nodes
             /\ exported.netseed = models[r].network_seed
             /\ \A w \in 1..Len(exported.lines) :
                  /\ exported.lines[w].mode = models[r].mode
                  /\ exported.lines[w].prep = models[r].prep

(***************************************************************************)
(* Apply Settings and Default Settings with a user who clicks and types    *)
(* only while mainloop has control: Step, and 0 or the default in "Number  *)
(* of nodes:" and in "Iterations (runs):".                                 *)
(***************************************************************************)
RollbackEdits ==
    {<<"num_nodes", 0>>, <<"num_nodes", DefaultNumNodes>>,
     <<"iterations", 0>>, <<"iterations", DefaultIterations>>}

NextRollback ==
    \/ stack = <<>> /\ step_once
    \/ stack = <<>> /\ apply_settings
    \/ stack = <<>> /\ reset_model
    \/ stack = <<>> /\ \E e \in RollbackEdits : set_input(e[1], e[2])
    \/ create_models_next
    \/ create_models_raises
    \/ rebuild_done

SpecRollback == Init /\ [][NextRollback]_vars

(***************************************************************************)
(* C24.  A rebuild that fails changes nothing: the step in which           *)
(* apply_settings or reset_model ends by an exception leaves t, models,    *)
(* model and pos as they were, and after a failed rebuild every run of the *)
(* active ensemble still has t + 1 snapshots.                              *)
(***************************************************************************)
C24_AllOrNothing ==
    /\ [][(last'.op \in {"apply_settings", "reset_model"}
             /\ last'.err # "none") =>
            (t' = t /\ models' = models /\ model' = model /\ pos' = pos)]_vars
    /\ []((stack = <<>> /\ last.op \in {"apply_settings", "reset_model"}
             /\ last.err # "none") =>
            \A j \in 1..Len(models) :
                Len(models[j].states_per_time) = t + 1)

(***************************************************************************)
(* NetworkModel node by node, from the specification (sections 3, 4.3,     *)
(* 4.4, 5): a run over a graph of SweepNodes nodes.  nodes: the state of   *)
(* each node; edges: the partnerships; transmit: the edges on which the    *)
(* run's transmission draws succeed; progress: the nodes whose dwell time  *)
(* ends; g_prev is history: the node states before the last step.          *)
(***************************************************************************)
NodeIds == 1..SweepNodes
Pairs == {e \in SUBSET NodeIds : Cardinality(e) = 2}
Infectious == {"acute", "chronic"}

\* the orders in which a sweep can evaluate the nodes
Orders ==
    {o \in [NodeIds -> NodeIds] : \A i, j \in NodeIds : o[i] = o[j] => i = j}

\* the stage after a stage whose dwell time has ended
NextStage(s) ==
    CASE s = "acute" -> "chronic"
      [] s = "chronic" -> "aids"
      [] s = "aids" -> "dead"
      [] OTHER -> s

\* the state of node i after the week, from the states `seen`
Evaluate(g, i, seen) ==
    IF seen[i] = "susceptible"
    THEN IF \E j \in NodeIds :
               /\ {i, j} \in g.edges
               /\ seen[j] \in Infectious
               /\ {i, j} \in g.transmit
         THEN "acute"
         ELSE "susceptible"
    ELSE IF i \in g.progress THEN NextStage(seen[i]) ELSE seen[i]

\* a sweep that reads the states it has already updated
SeenInPlace(old, cur) == cur

\* the states an evaluation reads: those of the previous snapshot
Seen(old, cur) == old

RECURSIVE SweepFrom(_, _, _, _, _)
\* the sweep from the k-th node of the order on; cur collects the updates
SweepFrom(g, order, k, old, cur) ==
    IF k > SweepNodes
    THEN cur
    ELSE SweepFrom(g, order, k + 1, old,
                   [cur EXCEPT ![order[k]] =
                       Evaluate(g, order[k], Seen(old, cur))])

\* one full sweep in an order
Sweep(g, order) == SweepFrom(g, order, 1, g.nodes, g.nodes)

\* the snapshot: counts by state over all nodes
Counts(ns) ==
    [c \in {KEYS[k] : k \in 1..Len(KEYS)} |->
        Cardinality({i \in NodeIds : ns[i] = c})]

\* a run at week 0: some nodes Acute, the others Susceptible
NodeModel(ns, edges, transmit, progress) ==
    [num_nodes |-> SweepNodes,
     network_seed |-> DefaultNetworkSeed,
     nodes |-> ns,
     edges |-> edges,
     transmit |-> transmit,
     progress |-> progress,
     states_per_time |-> <<Counts(ns)>>,
     g_prev |-> ns]

\* step() of a run held node by node, its sweep in an order
node_step(g, order) ==
    LET ns == Sweep(g, order)
    IN  [g EXCEPT !.nodes = ns,
                  !.g_prev = g.nodes,
                  !.states_per_time = Append(@, Counts(ns))]

\* Step on a session of one such run
sweep_step ==
    /\ Room(1)
    /\ \E order \in Orders : models' = <<node_step(models[1], order)>>
    /\ t' = t + 1
    /\ title' = "t"
    /\ last' = Stepped("step", 1)
    /\ UNCHANGED <<running, model, pos, inp, use_seed, mode_var, pending,
                   stack, exported, paused>>

InitSweep ==
    /\ t = 0
    /\ running = FALSE
    /\ \E ns \in [NodeIds -> {"susceptible", "acute"}], edges \in SUBSET Pairs,
          progress \in SUBSET NodeIds :
         \E transmit \in SUBSET edges :
            models = <<NodeModel(ns, edges, transmit, progress)>>
    /\ model = Attached
    /\ pos = Layout(models[1], DefaultNetworkSeed)
    /\ inp = settings
    /\ use_seed = FALSE
    /\ mode_var = "standard"
    /\ pending = 0
    /\ title = "ready"
    /\ stack = <<>>
    /\ exported = NoFile
    /\ last = Did("init")
    /\ paused = FALSE

SpecSweep == InitSweep /\ [][sweep_step]_vars

(***************************************************************************)
(* C21.  In one step() every node's new state is computed from the         *)
(* previous week's states only and the updates are applied together: the   *)
(* result is the same for every order of evaluation, a node that becomes   *)
(* Acute in the step was Susceptible with a neighbour that was infectious  *)
(* before the step, and the snapshot appended counts the new states.       *)
(***************************************************************************)
C21_SynchronousStep ==
    [][LET g   == models[1]
           old == g.nodes
           new == models'[1].nodes
       IN  /\ \A o \in Orders : new = Sweep(g, o)
           /\ \A i \in NodeIds : new[i] = Evaluate(g, i, old)
           /\ \A i \in NodeIds :
                (old[i] = "susceptible" /\ new[i] = "acute") =>
                    \E j \in NodeIds :
                        {i, j} \in g.edges /\ old[j] \in Infectious
           /\ models'[1].states_per_time
                = Append(g.states_per_time, Counts(new))]_vars

\* a step in which node i was infected while its neighbour j, on an edge
\* whose transmission draw succeeds, was Susceptible and stays so
C21_Witness ==
    /\ last.op = "step"
    /\ \E i, j \in NodeIds :
         /\ {i, j} \in models[1].transmit
         /\ models[1].g_prev[i] = "susceptible"
         /\ models[1].nodes[i] = "acute"
         /\ models[1].g_prev[j] = "susceptible"
         /\ models[1].nodes[j] = "susceptible"

=============================================================================
